---- MODULE Spec2Model ----
(***************************************************************************)
(* Model of drivers/motor/motor.cpp: the Motor controller (speed,          *)
(* frequency, decay mode, derived period), the PWM factor calculation and  *)
(* the registers of the PWM peripheral the controller writes.              *)
(*                                                                         *)
(* Numbers.  A float frequency is a pair <<m, e>> standing for m / 2^e.    *)
(* A float speed is an integer k standing for k / 2^SpeedBits.  Every      *)
(* float operation of the source (int -> float conversion, division,       *)
(* multiplication, float -> int conversion) is computed with IEEE-754      *)
(* binary32 rounding (24 bit significand, round to nearest, ties to even)  *)
(* by RoundedTrunc.  All intermediate values stay below 2^31.              *)
(***************************************************************************)
EXTENDS Integers, Sequences, FiniteSets, TLC

VARIABLES source_hz, pin_pos, pin_neg,
          motor_speed, pwm_frequency, pwm_period, motor_decay_mode,
          hw, init_ok, last, pre, log, quant

vars == <<source_hz, pin_pos, pin_neg, motor_speed, pwm_frequency, pwm_period,
          motor_decay_mode, hw, init_ok, last, pre, log, quant>>

(***************************************************************************)
(* Bounds and program constants                                            *)
(***************************************************************************)
\* speeds are multiples of 1 / 2^SpeedBits
SpeedBits == 2

MAX_PWM_PERIOD == 65535

SpeedOne == 2 ^ SpeedBits

UInt16 == 2 ^ 16

(***************************************************************************)
(* binary32 arithmetic                                                     *)
(***************************************************************************)
RECURSIVE BitLen(_)
BitLen(x) == IF x = 0 THEN 0 ELSE 1 + BitLen(x \div 2)

\* <<floor(rem * 2^n / b), (rem * 2^n) % b>>, one binary digit at a time
RECURSIVE FracBits(_, _, _)
FracBits(rem, b, n) ==
  IF n = 0 \/ rem = 0 THEN <<0, rem>>
  ELSE LET p == FracBits(rem, b, n - 1)
           d == 2 * p[2]
       IN  IF d >= b THEN <<2 * p[1] + 1, d - b>> ELSE <<2 * p[1], d>>

\* the integer part of the binary32 value nearest to I + rem/b
\* (0 <= rem < b): rounding to 24 significant bits, then truncation
RoundedTrunc(I, rem, b) ==
  LET k == BitLen(I) IN
  IF k <= 24
  THEN LET n    == 25 - k
           fb   == FracBits(rem, b, n)
           full == I * (2 ^ n) + fb[1]
           m    == full \div 2
           up   == (full % 2 = 1) /\ (fb[2] # 0 \/ m % 2 = 1)
           mr   == IF up THEN m + 1 ELSE m
       IN  mr \div (2 ^ (n - 1))
  ELSE LET sh   == k - 24
           m    == I \div (2 ^ sh)
           low  == I % (2 ^ sh)
           half == 2 ^ (sh - 1)
           up   == (low >= half) /\ (low > half \/ rem # 0 \/ m % 2 = 1)
           mr   == IF up THEN m + 1 ELSE m
       IN  mr * (2 ^ sh)

\* (float)x for an unsigned integer x: integer valued
FloatOfUInt(x) == RoundedTrunc(x, 0, 1)

\* (uint32_t)(a / f) for an integer valued float a and a float f = m / 2^e > 0
FloatDivTrunc(a, f) ==
  LET fb == FracBits(a % f[1], f[1], f[2])
  IN  RoundedTrunc((a \div f[1]) * (2 ^ f[2]) + fb[1], fb[2], f[1])

\* f >= n and f <= n for a float f = m / 2^e and an integer n
FloatGeq(f, n) == f[1] >= n * (2 ^ f[2])
FloatLeq(f, n) == f[1] <= n * (2 ^ f[2])

(***************************************************************************)
(* Motor::calculate_pwm_factors                                            *)
(***************************************************************************)
\* FactorLoop with the period bound of the factor 2 branch left out
RECURSIVE FactorLoop_NoCap(_, _, _, _)
FactorLoop_NoCap(div16, period, wide, iters) ==
  IF div16 >= 5 * 16 /\ div16 % 5 = 0 /\ period * 5 < MAX_PWM_PERIOD
  THEN FactorLoop_NoCap(div16 \div 5, (period * 5) % UInt16, wide * 5, iters + 1)
  ELSE IF div16 >= 3 * 16 /\ div16 % 3 = 0 /\ period * 3 < MAX_PWM_PERIOD
  THEN FactorLoop_NoCap(div16 \div 3, (period * 3) % UInt16, wide * 3, iters + 1)
  ELSE IF div16 >= 2 * 16
  THEN FactorLoop_NoCap(div16 \div 2, (period * 2) % UInt16, wide * 2, iters + 1)
  ELSE [div16 |-> div16, period |-> period, wide |-> wide, iters |-> iters]

\* FactorLoop trying the factors in the order 2, 3, 5
RECURSIVE FactorLoop_TwoFirst(_, _, _, _)
FactorLoop_TwoFirst(div16, period, wide, iters) ==
  IF div16 >= 2 * 16 /\ period * 2 <= MAX_PWM_PERIOD
  THEN FactorLoop_TwoFirst(div16 \div 2, (period * 2) % UInt16, wide * 2, iters + 1)
  ELSE IF div16 >= 3 * 16 /\ div16 % 3 = 0 /\ period * 3 < MAX_PWM_PERIOD
  THEN FactorLoop_TwoFirst(div16 \div 3, (period * 3) % UInt16, wide * 3, iters + 1)
  ELSE IF div16 >= 5 * 16 /\ div16 % 5 = 0 /\ period * 5 < MAX_PWM_PERIOD
  THEN FactorLoop_TwoFirst(div16 \div 5, (period * 5) % UInt16, wide * 5, iters + 1)
  ELSE [div16 |-> div16, period |-> period, wide |-> wide, iters |-> iters]

\* FactorLoop with no period bound on any branch
RECURSIVE FactorLoop_Uncapped(_, _, _, _)
FactorLoop_Uncapped(div16, period, wide, iters) ==
  IF div16 >= 5 * 16 /\ div16 % 5 = 0
  THEN FactorLoop_Uncapped(div16 \div 5, (period * 5) % UInt16, wide * 5, iters + 1)
  ELSE IF div16 >= 3 * 16 /\ div16 % 3 = 0
  THEN FactorLoop_Uncapped(div16 \div 3, (period * 3) % UInt16, wide * 3, iters + 1)
  ELSE IF div16 >= 2 * 16
  THEN FactorLoop_Uncapped(div16 \div 2, (period * 2) % UInt16, wide * 2, iters + 1)
  ELSE [div16 |-> div16, period |-> period, wide |-> wide, iters |-> iters]

\* the while(true) loop: period is a uint16_t, div16 a uint32_t; wide is the
\* product of the factors applied, which period holds modulo 2^16
RECURSIVE FactorLoop(_, _, _, _)
FactorLoop(div16, period, wide, iters) ==
  IF div16 >= 5 * 16 /\ div16 % 5 = 0 /\ period * 5 < MAX_PWM_PERIOD
  THEN FactorLoop(div16 \div 5, (period * 5) % UInt16, wide * 5, iters + 1)
  ELSE IF div16 >= 3 * 16 /\ div16 % 3 = 0 /\ period * 3 < MAX_PWM_PERIOD
  THEN FactorLoop(div16 \div 3, (period * 3) % UInt16, wide * 3, iters + 1)
  ELSE IF div16 >= 2 * 16 /\ period * 2 <= MAX_PWM_PERIOD
  THEN FactorLoop(div16 \div 2, (period * 2) % UInt16, wide * 2, iters + 1)
  ELSE [div16 |-> div16, period |-> period, wide |-> wide, iters |-> iters]

\* the frequency check of line 126
FreqValid(freq, hz) ==
  FloatGeq(freq, 1) /\ FloatLeq(freq, FloatOfUInt(hz \div 2))

\* InitialDiv16 as the exact quotient rounded to the nearest integer
InitialDiv16_Rounded(freq, hz) ==
  LET n   == hz * 16
      m   == freq[1]
      int == ((n \div m) * (2 ^ freq[2])) + (((n % m) * (2 ^ freq[2])) \div m)
      rem == ((n % m) * (2 ^ freq[2])) % m
  IN  int + (IF 2 * rem >= m THEN 1 ELSE 0)

\* the first divider candidate of line 127
InitialDiv16(freq, hz) == FloatDivTrunc(FloatOfUInt(hz * 16), freq)

\* success: the return value; written: period_out and div16_out were
\* assigned; entered: the factoring loop ran; start/final: div16 before and
\* after the loop; period/wide: the loop's period as stored and unwrapped
calculate_pwm_factors(freq, hz) ==
  IF FreqValid(freq, hz)
  THEN LET d0  == InitialDiv16(freq, hz)
           fin == FactorLoop(d0, 1, 1, 0)
           ok  == fin.div16 >= 16 /\ fin.div16 < 256 * 16
       IN  [success |-> ok, written |-> ok, entered |-> TRUE,
            period_out |-> IF ok THEN fin.period ELSE 0,
            div16_out  |-> IF ok THEN fin.div16 % UInt16 ELSE 0,
            start |-> d0, final |-> fin.div16, period |-> fin.period,
            wide |-> fin.wide, iters |-> fin.iters]
  ELSE [success |-> FALSE, written |-> FALSE, entered |-> FALSE,
        period_out |-> 0, div16_out |-> 0,
        start |-> 0, final |-> 0, period |-> 0, wide |-> 0, iters |-> 0]

(***************************************************************************)
(* The PWM peripheral and the pins (hardware/pwm.h, hardware/gpio.h)       *)
(***************************************************************************)
FAST_DECAY == "FAST_DECAY"
SLOW_DECAY == "SLOW_DECAY"
DecayModes == {FAST_DECAY, SLOW_DECAY}

\* pwm_gpio_to_slice_num
SliceNum(pin) == (pin \div 2) % 8

Pins   == {pin_pos, pin_neg}
Slices == {SliceNum(pin_pos), SliceNum(pin_neg)}

\* one register write; tgt is a slice (clkdiv, wrap, init) or a pin (level,
\* func); a clkdiv write carries the integer part in val and the fraction
\* in aux, a pwm_init the wrap in val and the 8.4 divider in aux
Ev(kind, tgt, val, aux) == [kind |-> kind, tgt |-> tgt, val |-> val, aux |-> aux]

\* pwm_set_gpio_level(pin, level): the level parameter is a uint16_t
LevelEv(pin, level) == Ev("level", pin, level % UInt16, 0)

\* pwm_set_wrap(slice, wrap): the wrap parameter is a uint16_t
WrapEv(slice, wrap) == Ev("wrap", slice, wrap % UInt16, 0)

\* pwm_set_clkdiv_int_frac(slice, integer, fract): uint8_t parameters
ClkdivEv(slice, div, mod) == Ev("clkdiv", slice, div % 256, mod % 256)

\* pwm_init(slice, &pwm_cfg, true) with the wrap and divider put in pwm_cfg by
\* pwm_config_set_wrap(period - 1) and pwm_config_set_clkdiv(div16 / 16.0f)
InitEv(slice, period, div16) ==
  Ev("init", slice, (period - 1) % UInt16, FloatOfUInt(div16))

\* gpio_set_function(pin, GPIO_FUNC_PWM)
FuncEv(pin) == Ev("func", pin, 1, 0)

\* the effect of one register write on the peripheral; pwm_init also clears
\* the compare register (both levels) of the slice
ApplyWrite(h, ev) ==
  CASE ev.kind = "level"  -> [h EXCEPT !.level[ev.tgt] = ev.val]
    [] ev.kind = "wrap"   -> [h EXCEPT !.wrap[ev.tgt] = ev.val]
    [] ev.kind = "clkdiv" -> [h EXCEPT !.div[ev.tgt] = (ev.val * 16) + (ev.aux % 16)]
    [] ev.kind = "func"   -> [h EXCEPT !.func[ev.tgt] = "PWM"]
    [] ev.kind = "init"   ->
         [h EXCEPT !.wrap[ev.tgt] = ev.val,
                   !.div[ev.tgt]  = ev.aux,
                   !.level = [p \in DOMAIN h.level |->
                                IF SliceNum(p) = ev.tgt THEN 0 ELSE h.level[p]]]

RECURSIVE Replay(_, _)
Replay(h, evs) ==
  IF evs = <<>> THEN h ELSE Replay(ApplyWrite(h, Head(evs)), Tail(evs))

(***************************************************************************)
(* Motor::update_pwm                                                       *)
(***************************************************************************)
\* SignedDutyCycle with the product rounded to the nearest integer
SignedDutyCycle_Rounded(speed, period) ==
  LET a == (IF speed < 0 THEN 0 - speed ELSE speed) * FloatOfUInt(period)
      t == ((2 * a) + SpeedOne) \div (2 * SpeedOne)
  IN  IF speed < 0 THEN 0 - t ELSE t

\* (int32_t)(motor_speed * (float)pwm_period); speed is k / 2^SpeedBits
SignedDutyCycle(speed, period) ==
  LET a == (IF speed < 0 THEN 0 - speed ELSE speed) * FloatOfUInt(period)
      t == RoundedTrunc(a \div SpeedOne, a % SpeedOne, SpeedOne)
  IN  IF speed < 0 THEN 0 - t ELSE t

\* Levels whose coasting branch for a negative duty drives both channels
Levels_BothDriven(speed, period, mode) ==
  LET signed_duty_cycle == SignedDutyCycle(speed, period) IN
  IF mode = SLOW_DECAY
  THEN IF signed_duty_cycle >= 0
       THEN <<period, period - signed_duty_cycle>>
       ELSE <<period + signed_duty_cycle, period>>
  ELSE IF signed_duty_cycle >= 0
       THEN <<signed_duty_cycle, 0>>
       ELSE <<0 - signed_duty_cycle, 0 - signed_duty_cycle>>

\* the two levels handed to pwm_set_gpio_level, positive pin first
Levels(speed, period, mode) ==
  LET signed_duty_cycle == SignedDutyCycle(speed, period) IN
  IF mode = SLOW_DECAY
  THEN IF signed_duty_cycle >= 0
       THEN <<period, period - signed_duty_cycle>>
       ELSE <<period + signed_duty_cycle, period>>
  ELSE IF signed_duty_cycle >= 0
       THEN <<signed_duty_cycle, 0>>
       ELSE <<0, 0 - signed_duty_cycle>>

update_pwm(speed, period, mode) ==
  LET lv == Levels(speed, period, mode)
  IN  <<LevelEv(pin_pos, lv[1]), LevelEv(pin_neg, lv[2])>>

(***************************************************************************)
(* Inputs                                                                  *)
(***************************************************************************)
\* clock_get_hz(clk_sys); fixed for the lifetime of a controller
Clocks == {125000000}

\* positive and negative pin: on one slice, on two slices
PinPairs == {<<0, 1>>, <<2, 4>>}

\* frequencies handed to the constructor and to set_frequency:
\* 0, 0.5, 4 Hz, 25 kHz, 50 kHz, 1 MHz, 62.5 MHz, 100 MHz
Freqs == {<<0, 0>>, <<1, 1>>, <<4, 0>>, <<25000, 0>>, <<50000, 0>>,
          <<1000000, 0>>, <<62500000, 0>>, <<100000000, 0>>}

CtorFreqs == {<<4, 0>>, <<25000, 0>>}

\* speeds handed to set_speed, some beyond -1 and 1
SpeedArgs == (0 - SpeedOne - 1) .. (SpeedOne + 1)

\* pwm_period has no initializer: its value before init() is indeterminate
IndeterminatePeriods == {0, MAX_PWM_PERIOD}

\* the registers after reset: divider 1.0, wrap 0xffff, levels 0
ResetHw(pp, pn) ==
  [div   |-> [s \in {SliceNum(pp), SliceNum(pn)} |-> 16],
   wrap  |-> [s \in {SliceNum(pp), SliceNum(pn)} |-> UInt16 - 1],
   level |-> [p \in {pp, pn} |-> 0],
   func  |-> [p \in {pp, pn} |-> "NULL"]]

NoQuant == [freq |-> <<0, 0>>, called |-> FALSE,
            res |-> calculate_pwm_factors(<<0, 0>>, 0)]

(***************************************************************************)
(* Motor                                                                   *)
(***************************************************************************)
Snapshot ==
  [motor_speed |-> motor_speed, pwm_frequency |-> pwm_frequency,
   pwm_period |-> pwm_period, motor_decay_mode |-> motor_decay_mode,
   hw |-> hw, init_ok |-> init_ok]

Called(op, speed, freq, mode, ret) ==
  [op |-> op, speed |-> speed, freq |-> freq, mode |-> mode, ret |-> ret]

\* Motor::Motor: the initializer list sets the pins, the frequency and the
\* decay mode; the speed starts at 0 and pwm_period is left unset
Init ==
  /\ source_hz \in Clocks
  /\ \E pp \in PinPairs :
       /\ pin_pos = pp[1]
       /\ pin_neg = pp[2]
       /\ hw = ResetHw(pp[1], pp[2])
  /\ motor_speed = 0
  /\ pwm_frequency \in CtorFreqs
  /\ pwm_period \in IndeterminatePeriods
  /\ motor_decay_mode \in DecayModes
  /\ init_ok = FALSE
  /\ last = Called("ctor", 0, <<0, 0>>, FAST_DECAY, TRUE)
  /\ log = <<>>
  /\ quant = NoQuant
  /\ pre = Snapshot

\* what every call does besides its own assignments: the register writes
\* reach the peripheral in order, and the call is recorded
Effect(call, writes) ==
  /\ last' = call
  /\ pre' = Snapshot
  /\ log' = writes
  /\ hw' = Replay(hw, log')
  /\ UNCHANGED <<source_hz, pin_pos, pin_neg, quant>>

\* the register writes of a successful Motor::init
InitWrites(period, div16) ==
  <<InitEv(SliceNum(pin_pos), period, div16), FuncEv(pin_pos),
    InitEv(SliceNum(pin_neg), period, div16), FuncEv(pin_neg)>>
  \o update_pwm(motor_speed, period, motor_decay_mode)

\* init that binds the pins before it knows the factors
init_BindsFirst ==
  LET r == calculate_pwm_factors(pwm_frequency, source_hz) IN
  IF r.success
  THEN /\ pwm_period' = r.period_out
       /\ init_ok' = TRUE
       /\ UNCHANGED <<motor_speed, pwm_frequency, motor_decay_mode>>
       /\ Effect(Called("init", 0, pwm_frequency, motor_decay_mode, TRUE),
                 InitWrites(r.period_out, r.div16_out))
  ELSE /\ UNCHANGED <<motor_speed, pwm_frequency, pwm_period,
                      motor_decay_mode, init_ok>>
       /\ Effect(Called("init", 0, pwm_frequency, motor_decay_mode, FALSE),
                 <<FuncEv(pin_pos), FuncEv(pin_neg)>>)

\* Motor::init
init ==
  LET r == calculate_pwm_factors(pwm_frequency, source_hz) IN
  IF r.success
  THEN /\ pwm_period' = r.period_out
       /\ init_ok' = TRUE
       /\ UNCHANGED <<motor_speed, pwm_frequency, motor_decay_mode>>
       /\ Effect(Called("init", 0, pwm_frequency, motor_decay_mode, TRUE),
                 InitWrites(r.period_out, r.div16_out))
  ELSE /\ UNCHANGED <<motor_speed, pwm_frequency, pwm_period,
                      motor_decay_mode, init_ok>>
       /\ Effect(Called("init", 0, pwm_frequency, motor_decay_mode, FALSE), <<>>)

\* Clamp without the clamping
Clamp_None(speed) == speed

\* Clamp that only bounds the speed from above
Clamp_UpperOnly(speed) == IF speed < SpeedOne THEN speed ELSE SpeedOne

\* std::min(std::max(speed, -1.0f), 1.0f)
Clamp(speed) ==
  LET lo == IF speed > 0 - SpeedOne THEN speed ELSE 0 - SpeedOne
  IN  IF lo < SpeedOne THEN lo ELSE SpeedOne

\* Motor::set_speed
set_speed(speed) ==
  /\ motor_speed' = Clamp(speed)
  /\ UNCHANGED <<pwm_frequency, pwm_period, motor_decay_mode, init_ok>>
  /\ Effect(Called("set_speed", speed, <<0, 0>>, motor_decay_mode, TRUE),
            update_pwm(Clamp(speed), pwm_period, motor_decay_mode))

\* SetFrequencyWrites with the test for a larger period inverted
SetFrequencyWrites_Swapped(old, period, div16) ==
  LET pre_update_pwm == period < old
      pos_num == SliceNum(pin_pos)
      neg_num == SliceNum(pin_neg)
      div == (div16 \div 16) % 256
      mod == (div16 % 16) % 256
      push == update_pwm(motor_speed, period, motor_decay_mode)
  IN  <<ClkdivEv(pos_num, div, mod)>>
      \o (IF neg_num # pos_num THEN <<ClkdivEv(neg_num, div, mod)>> ELSE <<>>)
      \o (IF pre_update_pwm THEN push ELSE <<>>)
      \o <<WrapEv(pos_num, period - 1)>>
      \o (IF neg_num # pos_num THEN <<WrapEv(neg_num, period - 1)>> ELSE <<>>)
      \o (IF ~pre_update_pwm THEN push ELSE <<>>)

\* SetFrequencyWrites that always writes the wrap before pushing the levels
SetFrequencyWrites_WrapFirst(old, period, div16) ==
  LET pos_num == SliceNum(pin_pos)
      neg_num == SliceNum(pin_neg)
      div == (div16 \div 16) % 256
      mod == (div16 % 16) % 256
  IN  <<ClkdivEv(pos_num, div, mod)>>
      \o (IF neg_num # pos_num THEN <<ClkdivEv(neg_num, div, mod)>> ELSE <<>>)
      \o <<WrapEv(pos_num, period - 1)>>
      \o (IF neg_num # pos_num THEN <<WrapEv(neg_num, period - 1)>> ELSE <<>>)
      \o update_pwm(motor_speed, period, motor_decay_mode)

\* SetFrequencyWrites whose early push still uses the period stored on entry
SetFrequencyWrites_OldPeriodPush(old, period, div16) ==
  LET pre_update_pwm == period > old
      pos_num == SliceNum(pin_pos)
      neg_num == SliceNum(pin_neg)
      div == (div16 \div 16) % 256
      mod == (div16 % 16) % 256
  IN  <<ClkdivEv(pos_num, div, mod)>>
      \o (IF neg_num # pos_num THEN <<ClkdivEv(neg_num, div, mod)>> ELSE <<>>)
      \o (IF pre_update_pwm
          THEN update_pwm(motor_speed, old, motor_decay_mode) ELSE <<>>)
      \o <<WrapEv(pos_num, period - 1)>>
      \o (IF neg_num # pos_num THEN <<WrapEv(neg_num, period - 1)>> ELSE <<>>)
      \o (IF ~pre_update_pwm
          THEN update_pwm(motor_speed, period, motor_decay_mode) ELSE <<>>)

\* the register writes of a successful Motor::set_frequency, in program
\* order; old is pwm_period on entry, period and div16 the new factors
SetFrequencyWrites(old, period, div16) ==
  LET pre_update_pwm == period > old
      pos_num == SliceNum(pin_pos)
      neg_num == SliceNum(pin_neg)
      div == (div16 \div 16) % 256
      mod == (div16 % 16) % 256
      push == update_pwm(motor_speed, period, motor_decay_mode)
  IN  <<ClkdivEv(pos_num, div, mod)>>
      \o (IF neg_num # pos_num THEN <<ClkdivEv(neg_num, div, mod)>> ELSE <<>>)
      \o (IF pre_update_pwm THEN push ELSE <<>>)
      \o <<WrapEv(pos_num, period - 1)>>
      \o (IF neg_num # pos_num THEN <<WrapEv(neg_num, period - 1)>> ELSE <<>>)
      \o (IF ~pre_update_pwm THEN push ELSE <<>>)

\* set_frequency that stores the frequency before the factors are known
set_frequency_StoresFirst(freq) ==
  LET r == calculate_pwm_factors(freq, source_hz) IN
  IF r.success
  THEN /\ pwm_period' = r.period_out
       /\ pwm_frequency' = freq
       /\ UNCHANGED <<motor_speed, motor_decay_mode, init_ok>>
       /\ Effect(Called("set_frequency", 0, freq, motor_decay_mode, TRUE),
                 SetFrequencyWrites(pwm_period, r.period_out, r.div16_out))
  ELSE /\ pwm_frequency' = freq
       /\ UNCHANGED <<motor_speed, pwm_period, motor_decay_mode, init_ok>>
       /\ Effect(Called("set_frequency", 0, freq, motor_decay_mode, FALSE), <<>>)

\* set_frequency that forgets to store the frequency
set_frequency_KeepsFrequency(freq) ==
  LET r == calculate_pwm_factors(freq, source_hz) IN
  IF r.success
  THEN /\ pwm_period' = r.period_out
       /\ UNCHANGED <<motor_speed, pwm_frequency, motor_decay_mode, init_ok>>
       /\ Effect(Called("set_frequency", 0, freq, motor_decay_mode, TRUE),
                 SetFrequencyWrites(pwm_period, r.period_out, r.div16_out))
  ELSE /\ UNCHANGED <<motor_speed, pwm_frequency, pwm_period,
                      motor_decay_mode, init_ok>>
       /\ Effect(Called("set_frequency", 0, freq, motor_decay_mode, FALSE), <<>>)

\* Motor::set_frequency
set_frequency(freq) ==
  LET r == calculate_pwm_factors(freq, source_hz) IN
  IF r.success
  THEN /\ pwm_period' = r.period_out
       /\ pwm_frequency' = freq
       /\ UNCHANGED <<motor_speed, motor_decay_mode, init_ok>>
       /\ Effect(Called("set_frequency", 0, freq, motor_decay_mode, TRUE),
                 SetFrequencyWrites(pwm_period, r.period_out, r.div16_out))
  ELSE /\ UNCHANGED <<motor_speed, pwm_frequency, pwm_period,
                      motor_decay_mode, init_ok>>
       /\ Effect(Called("set_frequency", 0, freq, motor_decay_mode, FALSE), <<>>)

\* set_decay_mode that stores the mode without pushing the levels
set_decay_mode_NoPush(mode) ==
  /\ motor_decay_mode' = mode
  /\ UNCHANGED <<motor_speed, pwm_frequency, pwm_period, init_ok>>
  /\ Effect(Called("set_decay_mode", 0, <<0, 0>>, mode, TRUE), <<>>)

\* Motor::set_decay_mode
set_decay_mode(mode) ==
  /\ motor_decay_mode' = mode
  /\ UNCHANGED <<motor_speed, pwm_frequency, pwm_period, init_ok>>
  /\ Effect(Called("set_decay_mode", 0, <<0, 0>>, mode, TRUE),
            update_pwm(motor_speed, pwm_period, mode))

\* stop that cuts both levels the way disable does
stop_ZeroLevels ==
  /\ motor_speed' = 0
  /\ UNCHANGED <<pwm_frequency, pwm_period, motor_decay_mode, init_ok>>
  /\ Effect(Called("stop", 0, <<0, 0>>, motor_decay_mode, TRUE),
            <<LevelEv(pin_pos, 0), LevelEv(pin_neg, 0)>>)

\* Motor::stop
stop ==
  /\ motor_speed' = 0
  /\ UNCHANGED <<pwm_frequency, pwm_period, motor_decay_mode, init_ok>>
  /\ Effect(Called("stop", 0, <<0, 0>>, motor_decay_mode, TRUE),
            update_pwm(0, pwm_period, motor_decay_mode))

\* disable that goes through the decay mode mapping the way stop does
disable_ViaUpdate ==
  /\ motor_speed' = 0
  /\ UNCHANGED <<pwm_frequency, pwm_period, motor_decay_mode, init_ok>>
  /\ Effect(Called("disable", 0, <<0, 0>>, motor_decay_mode, TRUE),
            update_pwm(0, pwm_period, motor_decay_mode))

\* Motor::disable
disable ==
  /\ motor_speed' = 0
  /\ UNCHANGED <<pwm_frequency, pwm_period, motor_decay_mode, init_ok>>
  /\ Effect(Called("disable", 0, <<0, 0>>, motor_decay_mode, TRUE),
            <<LevelEv(pin_pos, 0), LevelEv(pin_neg, 0)>>)

Next ==
  \/ init
  \/ \E speed \in SpeedArgs : set_speed(speed)
  \/ \E freq \in Freqs : set_frequency(freq)
  \/ \E mode \in DecayModes : set_decay_mode(mode)
  \/ stop
  \/ disable

Spec == Init /\ [][Next]_vars

(***************************************************************************)
(* The factor calculation on its own, over more clocks and frequencies     *)
(***************************************************************************)
QClocks == {125000000, 125000006, 109714285, 133000000, 48000000, 12000001}

\* frequencies below 1 Hz (negative, 0, 0.5, 0.75), low and audio-range
\* frequencies, and the floats around half the clock
QFreqs(hz) ==
  {<<0 - 25000, 0>>, <<0, 0>>, <<1, 1>>, <<3, 2>>, <<3, 1>>, <<15, 1>>}
  \cup {<<n, 0>> : n \in 1 .. 12}
  \cup {<<n, 0>> : n \in {15, 20, 30, 50, 100, 440, 1000, 1907, 1908, 20000,
                          25000, 50000, 1000000, 7812500, 10000000}}
  \cup {<<FloatOfUInt((hz \div 2) + d), 0>> :
          d \in {0 - 16, 0 - 8, 0 - 4, 0 - 1, 0, 1, 2, 4, 8, 16}}
  \cup {<<FloatOfUInt(hz), 0>>}

QInit ==
  /\ source_hz \in QClocks
  /\ pin_pos = 0
  /\ pin_neg = 1
  /\ hw = ResetHw(0, 1)
  /\ motor_speed = 0
  /\ pwm_frequency = <<25000, 0>>
  /\ pwm_period \in IndeterminatePeriods
  /\ motor_decay_mode = SLOW_DECAY
  /\ init_ok = FALSE
  /\ last = Called("ctor", 0, <<0, 0>>, FAST_DECAY, TRUE)
  /\ log = <<>>
  /\ quant = NoQuant
  /\ pre = Snapshot

\* one call of the static Motor::calculate_pwm_factors
quantize(freq) ==
  /\ quant' = [freq |-> freq, called |-> TRUE,
               res |-> calculate_pwm_factors(freq, source_hz)]
  /\ UNCHANGED <<source_hz, pin_pos, pin_neg, motor_speed, pwm_frequency,
                 pwm_period, motor_decay_mode, hw, init_ok, last, pre, log>>

QNext == \E freq \in QFreqs(source_hz) : quantize(freq)

QSpec == QInit /\ [][QNext]_vars

(***************************************************************************)
(* Properties                                                              *)
(***************************************************************************)
\* positions in the last call's register writes of the writes of one kind
Idx(kind) == {i \in 1 .. Len(log) : log[i].kind = kind}

\* the peripheral after the first i register writes of the last call
HwAt(i) == Replay(pre.hw, SubSeq(log, 1, i))

\* the period in effect in the hardware for a pin: wrap + 1
ActivePeriod(h, pin) == h.wrap[SliceNum(pin)] + 1

LevelPair(h) == <<h.level[pin_pos], h.level[pin_neg]>>

SetFrequencyOk == last.op = "set_frequency" /\ last.ret

StateKept ==
  /\ motor_speed = pre.motor_speed
  /\ pwm_frequency = pre.pwm_frequency
  /\ pwm_period = pre.pwm_period
  /\ motor_decay_mode = pre.motor_decay_mode

\* C1: a set_frequency call whose frequency calculate_pwm_factors rejects
\* returns false, writes no register, and leaves speed, frequency, period
\* and decay mode as they were.
C1_RejectedFrequencyChangesNothing ==
  (last.op = "set_frequency"
     /\ ~calculate_pwm_factors(last.freq, source_hz).success)
  => /\ last.ret = FALSE
     /\ log = <<>>
     /\ hw = pre.hw
     /\ StateKept

\* a 4 Hz request (inside the frequency range, divider too large) rejected
\* while the motor runs
C1_Witness ==
  /\ last.op = "set_frequency"
  /\ ~last.ret
  /\ FreqValid(last.freq, source_hz)
  /\ pre.init_ok
  /\ pre.motor_speed # 0

\* C2: in a successful set_frequency the divider writes come first; when
\* the new period is larger than the one stored before the call both level
\* writes precede every wrap write, when it is smaller every wrap write
\* precedes every level write.
C2_WriteOrder ==
  SetFrequencyOk
  => /\ Idx("clkdiv") # {}
     /\ Idx("wrap") # {}
     /\ Cardinality(Idx("level")) = 2
     /\ \A d \in Idx("clkdiv") : \A i \in Idx("level") \cup Idx("wrap") : d < i
     /\ pwm_period > pre.pwm_period
          => \A l \in Idx("level") : \A w \in Idx("wrap") : l < w
     /\ pwm_period < pre.pwm_period
          => \A l \in Idx("level") : \A w \in Idx("wrap") : w < l

\* a frequency change to a larger period with the pins on two slices
C2_Witness ==
  /\ SetFrequencyOk
  /\ pre.init_ok
  /\ pwm_period > pre.pwm_period
  /\ SliceNum(pin_pos) # SliceNum(pin_neg)
  /\ Cardinality(Idx("wrap")) = 2

\* a successful frequency change that starts from levels pushed by
\* update_pwm for the state before the call
C3_Case ==
  /\ SetFrequencyOk
  /\ pre.init_ok
  /\ LevelPair(pre.hw)
       = Levels(pre.motor_speed, pre.pwm_period, pre.motor_decay_mode)

\* the stored period from which the level a pin holds after i writes was
\* computed: the new one once the call has pushed that level
LevelPeriod(i, pin) ==
  IF \E j \in 1 .. i : log[j].kind = "level" /\ log[j].tgt = pin
  THEN pwm_period ELSE pre.pwm_period

\* C3 as stated: at every instant of a successful frequency change each
\* level register lies within [0, P] for the period P active in hardware.
C3_LevelWithinActivePeriod ==
  C3_Case
  => \A i \in 0 .. Len(log) : \A pin \in Pins :
       HwAt(i).level[pin] \in 0 .. ActivePeriod(HwAt(i), pin)

\* C3 amended: at every instant of a successful frequency change each level
\* register lies within [0, Q] for the stored period Q it was computed from,
\* and the period active in hardware is never larger than Q.
C3_ActivePeriodWithinLevelPeriod ==
  C3_Case
  => \A i \in 0 .. Len(log) : \A pin \in Pins :
       /\ HwAt(i).level[pin] \in 0 .. LevelPeriod(i, pin)
       /\ ActivePeriod(HwAt(i), pin) <= LevelPeriod(i, pin)

\* braking, the period grows: between the level push and the wrap write a
\* level is above the period active in hardware
C3_Witness ==
  /\ C3_Case
  /\ motor_decay_mode = SLOW_DECAY
  /\ pwm_period > pre.pwm_period
  /\ \E i \in 1 .. Len(log) - 1 : \E pin \in Pins :
       HwAt(i).level[pin] > ActivePeriod(HwAt(i), pin)

LevelsAgree ==
  LevelPair(hw) = Levels(motor_speed, pwm_period, motor_decay_mode)

\* the last call ran update_pwm
Pushed ==
  \/ last.op \in {"set_speed", "set_decay_mode", "stop"}
  \/ last.op \in {"init", "set_frequency"} /\ last.ret

\* C4 as stated: after a successful init the levels of both channels are, at
\* the completion of every call, the decay mode mapping of the stored speed,
\* period and decay mode.
C4_LevelsAlwaysAgree == init_ok => LevelsAgree

\* C4 amended: that holds at the completion of every call that pushes the
\* levels; disable leaves both levels at 0 with the stored speed 0, whatever
\* the decay mode, and they stay so until the next push.
C4_LevelsAgreeUnlessDisabled ==
  init_ok
  => /\ Pushed => LevelsAgree
     /\ last.op = "disable" => LevelPair(hw) = <<0, 0>> /\ motor_speed = 0
     /\ LevelsAgree \/ (LevelPair(hw) = <<0, 0>> /\ motor_speed = 0)

\* a running, braking motor disabled: levels 0 where the mapping gives period
C4_Witness ==
  /\ init_ok
  /\ last.op = "disable"
  /\ motor_decay_mode = SLOW_DECAY
  /\ pre.motor_speed # 0
  /\ ~LevelsAgree

\* C5: disable writes level 0 to the positive and to the negative channel
\* and nothing else, leaves the stored speed at 0, and keeps frequency,
\* period and decay mode.
C5_DisableWritesZero ==
  last.op = "disable"
  => /\ Len(log) = 2
     /\ log[1].kind = "level" /\ log[1].tgt = pin_pos /\ log[1].val = 0
     /\ log[2].kind = "level" /\ log[2].tgt = pin_neg /\ log[2].val = 0
     /\ LevelPair(hw) = <<0, 0>>
     /\ hw.div = pre.hw.div /\ hw.wrap = pre.hw.wrap
     /\ motor_speed = 0
     /\ pwm_frequency = pre.pwm_frequency
     /\ pwm_period = pre.pwm_period
     /\ motor_decay_mode = pre.motor_decay_mode

\* a braking motor at nonzero speed disabled
C5_Witness ==
  /\ last.op = "disable"
  /\ pre.init_ok
  /\ pre.motor_decay_mode = SLOW_DECAY
  /\ pre.motor_speed # 0
  /\ LevelPair(pre.hw) # <<0, 0>>

\* C6: every level update_pwm writes lies in [0, period] for the stored
\* period, for every requested speed and both decay modes.
C6_LevelsWithinPeriod ==
  \A i \in Idx("level") : log[i].val \in 0 .. pwm_period

\* a speed above 1 requested after init, coasting: clamped to full duty
C6_Witness ==
  /\ last.op = "set_speed"
  /\ last.speed > SpeedOne
  /\ init_ok
  /\ motor_decay_mode = FAST_DECAY
  /\ log[1].val = pwm_period

\* C7: after a successful init the stored period is the one
\* calculate_pwm_factors returns for the stored frequency; only a successful
\* set_frequency changes period or frequency, and it stores both.
C7_PeriodFollowsFrequency ==
  /\ init_ok
       => LET r == calculate_pwm_factors(pwm_frequency, source_hz)
          IN  r.success /\ pwm_period = r.period_out
  /\ (pre.init_ok /\ ~SetFrequencyOk)
       => pwm_period = pre.pwm_period /\ pwm_frequency = pre.pwm_frequency
  /\ SetFrequencyOk => pwm_frequency = last.freq

\* a frequency change after init that changes the period
C7_Witness ==
  /\ pre.init_ok
  /\ SetFrequencyOk
  /\ pwm_period # pre.pwm_period
  /\ pwm_frequency # pre.pwm_frequency

\* C8: when calculate_pwm_factors succeeds the divider is in [16, 4096) and
\* the period in [1, MAX_PWM_PERIOD] without having wrapped; when the final
\* divider is outside [16, 4096) it fails and writes neither output.
C8_FactorsInRange ==
  quant.called
  => LET r == quant.res
     IN  /\ r.success
              => /\ r.written
                 /\ r.div16_out \in 16 .. (256 * 16 - 1)
                 /\ r.div16_out = r.final
                 /\ r.period_out \in 1 .. MAX_PWM_PERIOD
                 /\ r.period_out = r.wide
         /\ (r.entered /\ ~(r.final \in 16 .. (256 * 16 - 1)))
              => ~r.success /\ ~r.written

\* a low frequency whose period ends close to the maximum
C8_Witness ==
  /\ quant.called
  /\ quant.res.success
  /\ quant.res.period_out * 2 > MAX_PWM_PERIOD

FreqBelowOne(f) == f[1] < 2 ^ f[2]
FreqAboveHalfClock(f, hz) == 2 * f[1] > hz * (2 ^ f[2])

\* C9: for every clock, calculate_pwm_factors fails for every frequency
\* below 1 and every frequency above half the clock, without entering the
\* loop and without writing the outputs.
C9_OutOfRangeRejected ==
  (quant.called
     /\ (FreqBelowOne(quant.freq) \/ FreqAboveHalfClock(quant.freq, source_hz)))
  => ~quant.res.success /\ ~quant.res.entered /\ ~quant.res.written

\* C10: after a successful init, stop does what set_speed(0) does: the
\* stored speed becomes 0, the levels written are (0, 0) when coasting and
\* (period, period) when braking, and no divider or wrap is written.
C10_StopIsSetSpeedZero ==
  (last.op = "stop" /\ pre.init_ok)
  => /\ motor_speed = 0
     /\ motor_speed = Clamp(0)
     /\ log = update_pwm(Clamp(0), pre.pwm_period, pre.motor_decay_mode)
     /\ hw = Replay(pre.hw, log)
     /\ Len(log) = 2
     /\ log[1].kind = "level" /\ log[1].tgt = pin_pos
     /\ log[2].kind = "level" /\ log[2].tgt = pin_neg
     /\ <<log[1].val, log[2].val>>
          = IF motor_decay_mode = FAST_DECAY THEN <<0, 0>>
            ELSE <<pwm_period, pwm_period>>
     /\ pwm_frequency = pre.pwm_frequency
     /\ pwm_period = pre.pwm_period
     /\ motor_decay_mode = pre.motor_decay_mode

\* a braking motor at nonzero speed stopped
C10_Witness ==
  /\ last.op = "stop"
  /\ pre.init_ok
  /\ motor_decay_mode = SLOW_DECAY
  /\ pre.motor_speed # 0
  /\ LevelPair(hw) = <<pwm_period, pwm_period>>

\* the level the last call wrote last to a pin
LevelWritten(pin) ==
  LET I == {i \in Idx("level") : log[i].tgt = pin}
  IN  log[CHOOSE i \in I : \A j \in I : j <= i].val

\* the last call ran update_pwm after a successful init, coasting, with a
\* nonzero stored speed
C11_Case ==
  /\ Pushed
  /\ init_ok
  /\ motor_decay_mode = FAST_DECAY
  /\ motor_speed # 0

\* C11 as stated: in FAST_DECAY, for every nonzero speed, exactly one of the
\* two levels update_pwm writes is nonzero: the positive one for speed > 0,
\* the negative one for speed < 0.
C11_ExactlyOneNonzero ==
  C11_Case
  => IF motor_speed > 0
     THEN LevelWritten(pin_pos) # 0 /\ LevelWritten(pin_neg) = 0
     ELSE LevelWritten(pin_pos) = 0 /\ LevelWritten(pin_neg) # 0

\* C11 amended: the channel opposite to the sign of the speed is written 0,
\* and the other one is nonzero exactly when |speed| * period >= 1; below
\* that the duty cycle is 0 and both levels are 0.
C11_AtMostOneNonzero ==
  C11_Case
  => LET mag  == IF motor_speed > 0 THEN motor_speed ELSE 0 - motor_speed
         same == IF motor_speed > 0 THEN pin_pos ELSE pin_neg
         opp  == IF motor_speed > 0 THEN pin_neg ELSE pin_pos
     IN  /\ LevelWritten(opp) = 0
         /\ LevelWritten(same) # 0 <=> mag * pwm_period >= SpeedOne

\* a small speed at period 2: both levels 0
C11_Witness ==
  /\ C11_Case
  /\ last.op = "set_speed"
  /\ LevelWritten(pin_pos) = 0
  /\ LevelWritten(pin_neg) = 0

\* C12: set_speed(v) stores v clamped to [-1, 1], pushes the two channel
\* levels and writes no divider or wrap; frequency, period and decay mode
\* stay as they were.
C12_SetSpeedClampsAndPushes ==
  last.op = "set_speed"
  => /\ motor_speed = (IF last.speed < 0 - SpeedOne THEN 0 - SpeedOne
                       ELSE IF last.speed > SpeedOne THEN SpeedOne
                       ELSE last.speed)
     /\ Len(log) = 2
     /\ log[1].kind = "level" /\ log[1].tgt = pin_pos
     /\ log[2].kind = "level" /\ log[2].tgt = pin_neg
     /\ <<log[1].val, log[2].val>>
          = Levels(motor_speed, pwm_period, motor_decay_mode)
     /\ hw.div = pre.hw.div /\ hw.wrap = pre.hw.wrap
     /\ pwm_frequency = pre.pwm_frequency
     /\ pwm_period = pre.pwm_period
     /\ motor_decay_mode = pre.motor_decay_mode

\* a speed below -1 requested after init
C12_Witness ==
  /\ last.op = "set_speed"
  /\ last.speed < 0 - SpeedOne
  /\ init_ok
  /\ motor_speed = 0 - SpeedOne
  /\ LevelPair(hw) # LevelPair(pre.hw)

\* C13: init returns false and touches no register and no pin when the
\* stored frequency is not representable; otherwise it configures both
\* channels with the period and divider calculated, binds both pins, then
\* pushes the levels for the stored speed, and returns true.
C13_InitAllOrNothing ==
  last.op = "init"
  => LET r == calculate_pwm_factors(pre.pwm_frequency, source_hz)
         cfg == Idx("init") \cup Idx("func")
     IN  /\ last.ret = r.success
         /\ ~r.success
              => log = <<>> /\ hw = pre.hw /\ StateKept /\ init_ok = pre.init_ok
         /\ r.success
              => /\ init_ok
                 /\ pwm_period = r.period_out
                 /\ \A sl \in Slices :
                      /\ hw.wrap[sl] = r.period_out - 1
                      /\ hw.div[sl] = r.div16_out
                      /\ \E i \in Idx("init") :
                           /\ log[i].tgt = sl
                           /\ log[i].val = r.period_out - 1
                           /\ log[i].aux = r.div16_out
                 /\ \A pin \in Pins :
                      /\ hw.func[pin] = "PWM"
                      /\ \E i \in Idx("func") : log[i].tgt = pin
                 /\ Cardinality(Idx("level")) = 2
                 /\ \A c \in cfg : \A l \in Idx("level") : c < l
                 /\ LevelPair(hw)
                      = Levels(pre.motor_speed, r.period_out,
                               pre.motor_decay_mode)
                 /\ motor_speed = pre.motor_speed
                 /\ pwm_frequency = pre.pwm_frequency
                 /\ motor_decay_mode = pre.motor_decay_mode

\* init refused for a 4 Hz motor whose pins were never bound
C13_Witness ==
  /\ last.op = "init"
  /\ ~last.ret
  /\ log = <<>>
  /\ \A pin \in Pins : hw.func[pin] = "NULL"
  /\ ~init_ok

\* a successful frequency change, after init, to a larger period
C14_Case ==
  /\ SetFrequencyOk
  /\ pre.init_ok
  /\ pwm_period > pre.pwm_period

\* C14 as stated: the levels pushed before the new wrap is written are
\* computed from the current speed and the period in effect before the call.
C14_EarlyPushUsesOldPeriod ==
  C14_Case
  => <<LevelWritten(pin_pos), LevelWritten(pin_neg)>>
       = Levels(motor_speed, pre.pwm_period, motor_decay_mode)

\* C14 amended: they are pushed before any wrap write and computed from the
\* current speed and the new period, which the call has already stored.
C14_EarlyPushUsesNewPeriod ==
  C14_Case
  => /\ \A l \in Idx("level") : \A w \in Idx("wrap") : l < w
     /\ motor_speed = pre.motor_speed
     /\ <<LevelWritten(pin_pos), LevelWritten(pin_neg)>>
          = Levels(motor_speed, pwm_period, motor_decay_mode)

\* a coasting motor at nonzero speed: old and new period give other levels
C14_Witness ==
  /\ C14_Case
  /\ motor_decay_mode = FAST_DECAY
  /\ motor_speed # 0
  /\ Levels(motor_speed, pre.pwm_period, motor_decay_mode)
       # Levels(motor_speed, pwm_period, motor_decay_mode)

\* the greedy loop the specification describes: the first prime in the
\* order 5, 3, 2 that fits the divider, divides it (2 untested) and keeps
\* period * p <= MAX_PWM_PERIOD is applied, until none can be
RECURSIVE GreedyReference(_, _)
GreedyReference(div16, period) ==
  LET Fits(p) == div16 >= 16 * p /\ period * p <= MAX_PWM_PERIOD
  IN  IF Fits(5) /\ div16 % 5 = 0
      THEN GreedyReference(div16 \div 5, period * 5)
      ELSE IF Fits(3) /\ div16 % 3 = 0
      THEN GreedyReference(div16 \div 3, period * 3)
      ELSE IF Fits(2)
      THEN GreedyReference(div16 \div 2, period * 2)
      ELSE [div16 |-> div16, period |-> period]

\* C15: for every frequency that passes the range check, the loop of
\* calculate_pwm_factors ends with the divider and period of the reference
\* greedy loop started from the same divider and period 1, and the call
\* succeeds exactly when that divider is in [16, 4096).
C15_MatchesGreedyReference ==
  (quant.called /\ quant.res.entered)
  => LET r   == quant.res
         ref == GreedyReference(r.start, 1)
     IN  /\ r.final = ref.div16
         /\ r.period = ref.period
         /\ r.wide = ref.period
         /\ r.success <=> ref.div16 \in 16 .. (256 * 16 - 1)
         /\ r.success => r.period_out = ref.period /\ r.div16_out = ref.div16

\* a call where factors of all three primes were applied and the loop
\* stopped on the period bound with the divider still reducible
C15_Witness ==
  /\ quant.called
  /\ quant.res.entered
  /\ quant.res.wide % 30 = 0
  /\ quant.res.final >= 2 * 16
  /\ quant.res.period * 2 > MAX_PWM_PERIOD

\* C16: the loop of calculate_pwm_factors ends after at most as many
\* iterations as the period can be doubled from 1 without passing
\* MAX_PWM_PERIOD: 2^iterations <= period <= MAX_PWM_PERIOD, so at most 15.
C16_LoopIterationsBounded ==
  (quant.called /\ quant.res.entered)
  => /\ 2 ^ quant.res.iters <= quant.res.wide
     /\ quant.res.wide <= MAX_PWM_PERIOD
     /\ quant.res.iters <= 15

\* a low frequency that takes a dozen iterations
C16_Witness ==
  /\ quant.called
  /\ quant.res.entered
  /\ quant.res.iters >= 12

\* the exact quotient (source_hz * 16) / freq as int + rem / den, 0 <= rem < den
ExactQuotient(freq, hz) ==
  LET n == hz * 16
      m == freq[1]
      s == 2 ^ freq[2]
  IN  [int |-> ((n \div m) * s) + (((n % m) * s) \div m),
       rem |-> ((n % m) * s) % m,
       den |-> m]

RoundToNearest(q) == q.int + (IF 2 * q.rem >= q.den THEN 1 ELSE 0)

\* C17 as stated: the first divider candidate is the exact quotient
\* (source_hz * 16) / freq rounded to the nearest integer.
C17_InitialDividerRounded ==
  (quant.called /\ quant.res.entered)
  => quant.res.start = RoundToNearest(ExactQuotient(quant.freq, source_hz))

\* C17 amended: the first divider candidate is the single-precision quotient
\* truncated toward zero. It lies within single-precision rounding error of
\* the exact quotient's integer part, and where source_hz * 16 is exact in
\* single precision and the quotient is below 2^22 with a fractional part of
\* at most 3/4 it is the integer part: a fraction of 1/2 or more is dropped.
C17_InitialDividerTruncated ==
  (quant.called /\ quant.res.entered)
  => LET q == ExactQuotient(quant.freq, source_hz)
         E == (q.int \div (2 ^ 22)) + 1
     IN  /\ quant.res.start >= q.int - E - 1
         /\ quant.res.start <= q.int + E
         /\ (/\ FloatOfUInt(source_hz * 16) = source_hz * 16
             /\ q.int < 2 ^ 22
             /\ 4 * q.rem <= 3 * q.den)
            => quant.res.start = q.int

\* an exact dividend and a quotient whose fraction is between 1/2 and 3/4
C17_Witness ==
  /\ quant.called
  /\ quant.res.entered
  /\ FloatOfUInt(source_hz * 16) = source_hz * 16
  /\ LET q == ExactQuotient(quant.freq, source_hz)
     IN  /\ q.int < 2 ^ 22
         /\ 2 * q.rem >= q.den
         /\ 4 * q.rem <= 3 * q.den
         /\ quant.res.start = q.int

\* the magnitude of motor_speed * pwm_period as whole part and remainder of
\* the division by SpeedOne
DutyProduct ==
  LET k == IF motor_speed < 0 THEN 0 - motor_speed ELSE motor_speed
  IN  [whole |-> (k * pwm_period) \div SpeedOne,
       rem   |-> (k * pwm_period) % SpeedOne]

\* the levels the specification's mapping gives for a signed duty cycle
MappedLevels(duty) ==
  IF motor_decay_mode = FAST_DECAY
  THEN IF duty >= 0 THEN <<duty, 0>> ELSE <<0, 0 - duty>>
  ELSE IF duty >= 0
       THEN <<pwm_period, pwm_period - duty>>
       ELSE <<pwm_period + duty, pwm_period>>

\* C18 as stated: the levels update_pwm writes are the decay mode mapping
\* of the duty cycle round(speed * period), rounded to the nearest integer.
C18_DutyRounded ==
  (Pushed /\ init_ok)
  => LET mag  == DutyProduct.whole
                   + (IF 2 * DutyProduct.rem >= SpeedOne THEN 1 ELSE 0)
         duty == IF motor_speed < 0 THEN 0 - mag ELSE mag
     IN  <<LevelWritten(pin_pos), LevelWritten(pin_neg)>> = MappedLevels(duty)

\* C18 amended: they are the decay mode mapping of the product speed * period
\* truncated toward zero: the fraction of the product is dropped, for either
\* sign of the speed.
C18_DutyTruncated ==
  (Pushed /\ init_ok)
  => LET mag  == DutyProduct.whole
         duty == IF motor_speed < 0 THEN 0 - mag ELSE mag
     IN  <<LevelWritten(pin_pos), LevelWritten(pin_neg)>> = MappedLevels(duty)

\* a reverse speed whose product with the period has a fraction of 1/2 or
\* more, braking
C18_Witness ==
  /\ Pushed
  /\ init_ok
  /\ motor_speed < 0
  /\ motor_decay_mode = SLOW_DECAY
  /\ 2 * DutyProduct.rem >= SpeedOne
  /\ LevelWritten(pin_pos) = pwm_period - DutyProduct.whole

\* how often the last call wrote the divider and the wrap of a slice:
\* pwm_init writes both, pwm_set_clkdiv_int_frac and pwm_set_wrap one each
DividerWrites(sl) ==
  Cardinality({i \in Idx("init") \cup Idx("clkdiv") : log[i].tgt = sl})

WrapWrites(sl) ==
  Cardinality({i \in Idx("init") \cup Idx("wrap") : log[i].tgt = sl})

\* C19: a successful init or set_frequency writes the divider and the wrap
\* of every slice the two pins map to exactly once, whether the pins share
\* a slice or not.
C19_EachSliceWrittenOnce ==
  (last.op \in {"init", "set_frequency"} /\ last.ret)
  => \A sl \in Slices : DividerWrites(sl) = 1 /\ WrapWrites(sl) = 1

====
